---- MODULE Spec2Model ----
(***************************************************************************)
(* PLY -> splat / delta-pack pipeline of dreamscene4d:                      *)
(*   render/pack_deltas.py      (multi-frame delta packer)                  *)
(*   convert_ply_to_splat.py    (single-frame splat converter)              *)
(*                                                                         *)
(* Numbers.  Raw PLY field values are fixed point in thousandths (milli);   *)
(* decoded colours, opacities and scales are in millionths (micro);         *)
(* decoded positions stay in milli (a plain float32 cast).                  *)
(* File names are sequences of character codes, so that sorted() and        *)
(* Path.suffix can be computed as Python computes them.                     *)
(***************************************************************************)
EXTENDS Integers, Sequences, FiniteSets, TLC

(***************************************************************************)
(* Bounds of the model.                                                     *)
(***************************************************************************)
\* number of entries of the input directory (one of the first four is no .ply)
MaxEntries == 4
\* the same for the converter's input directory
MaxConvEntries == 3

(***************************************************************************)
(* Program constants.                                                       *)
(***************************************************************************)
\* SH_C0 = 0.282095, in micro
SH_C0 == 282095
\* the 27 optional f_rest_* fields
NumFRest == 27

Micro == 1000 * 1000

Min(a, b) == IF a <= b THEN a ELSE b
Max(a, b) == IF a >= b THEN a ELSE b
\* np.clip(v, lo, hi)
Clip(v, lo, hi) == Max(lo, Min(v, hi))
Range(s) == {s[i] : i \in 1..Len(s)}

(***************************************************************************)
(* Field names.                                                             *)
(***************************************************************************)
\* convert_one: required
ConvRequired ==
    <<"x", "y", "z", "f_dc_0", "f_dc_1", "f_dc_2", "opacity",
      "scale_0", "scale_1", "scale_2", "rot_0", "rot_1", "rot_2", "rot_3">>
\* load_frame: required
PackRequired == <<"x", "y", "z">>
FdcFields == <<"f_dc_0", "f_dc_1", "f_dc_2">>
ScaleFields == <<"scale_0", "scale_1", "scale_2">>
RotFields == <<"rot_0", "rot_1", "rot_2", "rot_3">>
\* the strings f"f_rest_{i}" for i in range(27), in order
FRestNames ==
    <<"f_rest_0", "f_rest_1", "f_rest_2", "f_rest_3", "f_rest_4", "f_rest_5",
      "f_rest_6", "f_rest_7", "f_rest_8", "f_rest_9", "f_rest_10", "f_rest_11",
      "f_rest_12", "f_rest_13", "f_rest_14", "f_rest_15", "f_rest_16",
      "f_rest_17", "f_rest_18", "f_rest_19", "f_rest_20", "f_rest_21",
      "f_rest_22", "f_rest_23", "f_rest_24", "f_rest_25", "f_rest_26">>
\* f_rest_fields = [f"f_rest_{i}" for i in range(27)]
FRestFields == SubSeq(FRestNames, 1, NumFRest)

(***************************************************************************)
(* Header lines.  A stripped header line is modelled by its whitespace      *)
(* separated parts: kw = parts[0], a = parts[1], b = parts[2] ("" = absent).*)
(***************************************************************************)
Line(kw, a, b) == [kw |-> kw, a |-> a, b |-> b]
EndHeader == Line("end_header", "", "")
FormatBLE == Line("format", "binary_little_endian", "1.0")
FormatASCII == Line("format", "ascii", "1.0")
FormatBBE == Line("format", "binary_big_endian", "1.0")

\* int(parts[2]) on the count strings the sample headers use
ParseInt(s) ==
    CASE s = "0" -> 0
      [] s = "1" -> 1
      [] s = "2" -> 2
      [] s = "3" -> 3

\* type_map: PLY type token -> size in bytes of the numpy dtype it maps to
TypeTokens ==
    {"float", "float32", "double", "uchar", "uint8", "char", "int8", "short",
     "int16", "ushort", "uint16", "int", "int32", "uint", "uint32"}
TypeSize(t) ==
    CASE t \in {"float", "float32", "int", "int32", "uint", "uint32"} -> 4
      [] t = "double" -> 8
      [] t \in {"uchar", "uint8", "char", "int8"} -> 1
      [] t \in {"short", "int16", "ushort", "uint16"} -> 2

(***************************************************************************)
(* PLY files.  A file is its header lines, the complete vertex records of   *)
(* its payload (rows: field name -> raw value, in milli) and the number of  *)
(* trailing payload bytes that do not make up a whole record.               *)
(***************************************************************************)
\* three sample vertices: the raw value of field n of sample s, as stored
RawValue(s, n) ==
    CASE n = "x" -> <<0, 500, -1500>>[s]
      [] n = "y" -> <<1000, 1500, 0>>[s]
      [] n = "z" -> <<-1000, 2000, 500>>[s]
      [] n = "f_dc_0" -> <<0, 1000, 10>>[s]
      [] n = "f_dc_1" -> <<2000, -1000, 1773>>[s]
      [] n = "f_dc_2" -> <<-2000, 500, -1773>>[s]
      [] n = "opacity" -> <<0, 100000, -100000>>[s]
      [] n = "scale_0" -> <<0, 1000, -1000>>[s]
      [] n = "scale_1" -> <<1000, 0, -1000>>[s]
      [] n = "scale_2" -> <<-1000, 0, 0>>[s]
      [] n = "rot_0" -> <<1000, 0, 3000>>[s]
      [] n = "rot_1" -> <<0, 0, -4000>>[s]
      [] n = "rot_2" -> <<0, 0, 0>>[s]
      [] n = "rot_3" -> <<0, 0, 0>>[s]
      [] OTHER -> LET i == CHOOSE k \in 1..Len(FRestNames) : FRestNames[k] = n
                  IN  <<i, -i, 100 * i>>[s]

PropLines(names, type) == [i \in 1..Len(names) |-> Line("property", type, names[i])]
RowsOf(names, samples) ==
    LET fields == Range(names)
    IN  [i \in 1..Len(samples) |-> [n \in fields |-> RawValue(samples[i], n)]]
\* a PLY file with one vertex element
MkPly(fmt, count, names, type, tail, samples, extra) ==
    [lines |-> <<Line("ply", "", ""), fmt, Line("element", "vertex", count)>>
                 \o PropLines(names, type) \o tail,
     rows  |-> RowsOf(names, samples),
     extra |-> extra]

Without(names, drop) == SelectSeq(names, LAMBDA n : n \notin drop)

\* the sample files, by identifier
FileOf(id) ==
    CASE id = "good"  -> MkPly(FormatBLE, "2", ConvRequired, "float", <<EndHeader>>, <<1, 2>>, 0)
      [] id = "goodB" -> MkPly(FormatBLE, "2", ConvRequired, "double", <<EndHeader>>, <<3, 1>>, 0)
      [] id = "short" -> MkPly(FormatBLE, "1", ConvRequired, "float", <<EndHeader>>, <<3>>, 0)
      [] id = "rest"  -> MkPly(FormatBLE, "2", ConvRequired \o FRestFields, "float",
                               <<EndHeader>>, <<2, 3>>, 0)
      [] id = "partial" -> MkPly(FormatBLE, "2",
                               ConvRequired \o SubSeq(FRestFields, 1, NumFRest - 1),
                               "float", <<EndHeader>>, <<1, 2>>, 0)
      [] id = "trunc" -> MkPly(FormatBLE, "2", ConvRequired, "float", <<EndHeader>>, <<1>>, 10)
      [] id = "ascii" -> MkPly(FormatASCII, "2", ConvRequired, "float", <<EndHeader>>, <<1, 2>>, 0)
      [] id = "bigend" -> MkPly(FormatBBE, "2", ConvRequired, "float", <<EndHeader>>, <<1, 2>>, 0)
      [] id = "noend" -> MkPly(FormatBLE, "2", ConvRequired, "float", << >>, <<1, 2>>, 0)
      [] id = "noscale01" -> MkPly(FormatBLE, "2", Without(ConvRequired, {"scale_0", "scale_1"}),
                               "float", <<EndHeader>>, <<1, 2>>, 0)
      [] id = "nox_fdc0" -> MkPly(FormatBLE, "2", Without(ConvRequired, {"x", "f_dc_0"}),
                               "float", <<EndHeader>>, <<1, 2>>, 0)
      [] id = "norot" -> MkPly(FormatBLE, "2", Without(ConvRequired, Range(RotFields)),
                               "float", <<EndHeader>>, <<2, 1>>, 0)
      [] id = "badtype" -> MkPly(FormatBLE, "2", ConvRequired, "half", <<EndHeader>>, <<1, 2>>, 0)
      [] id = "withface" -> MkPly(FormatBLE, "2", ConvRequired, "float",
                               <<Line("element", "face", "0"),
                                 Line("property", "list", "uchar"), EndHeader>>, <<2, 3>>, 0)
      [] id = "novertex" ->
            [lines |-> <<Line("ply", "", ""), FormatBLE, Line("element", "face", "0"),
                         Line("property", "float", "x"), EndHeader>>,
             rows |-> << >>, extra |-> 0]

(***************************************************************************)
(* read_vertices (the hand-written parser, identical in both tools).        *)
(***************************************************************************)
\* result of a read: err = "" on success, names = v.dtype.names, data = rows
ReadOk(names, data) == [err |-> "", names |-> names, data |-> data]
ReadErr(e) == [err |-> e, names |-> << >>, data |-> << >>]

\* the readline loop: index of the first line equal to "end_header", 0 at EOF
FirstEndHeader(lines) ==
    IF \E i \in 1..Len(lines) : lines[i] = EndHeader
    THEN CHOOSE i \in 1..Len(lines) :
            /\ lines[i] = EndHeader
            /\ \A j \in 1..(i - 1) : lines[j] # EndHeader
    ELSE 0

\* the scan of the header lines (lines 32-41), as its result:
\* in_vertex at line k is decided by the last element line at or before k
ElementLines(header) == {j \in 1..Len(header) : header[j].kw = "element"}
InVertex(header, elems, k) ==
    LET before == {j \in elems : j <= k}
    IN  /\ before # {}
        /\ header[CHOOSE j \in before : \A m \in before : m <= j].a = "vertex"
ScanHeader(header) ==
    LET elems == ElementLines(header)
        idxs  == SelectSeq([k \in 1..Len(header) |-> k],
                           LAMBDA k : header[k].kw = "property"
                                      /\ InVertex(header, elems, k))
        \* vertex_count: set by every "element vertex" line, the last one stays
        vl    == {j \in elems : header[j].a = "vertex"}
        lastV == CHOOSE j \in vl : \A m \in vl : m <= j
    IN  [hasCount |-> vl # {},
         count    |-> IF vl = {} THEN 0 ELSE ParseInt(header[lastV].b),
         \* properties.append((parts[2], parts[1])): <<name, type>>
         props    |-> [q \in 1..Len(idxs) |-> <<header[idxs[q]].b, header[idxs[q]].a>>]]

\* np.dtype(dtype).itemsize: the sum of the sizes of the fields
SumSizes(props) ==
    LET n(sz) == Cardinality({q \in 1..Len(props) : TypeSize(props[q][2]) = sz})
    IN  n(1) + 2 * n(2) + 4 * n(4) + 8 * n(8)

\* bytes of payload after the header
PayloadBytes(f, stride) == Len(f.rows) * stride + f.extra

\* np.fromfile(f, dtype, count): the whole records available, at most count
FromFile(f, props, count) ==
    LET stride == SumSizes(props)
        items  == Min(count, PayloadBytes(f, stride) \div stride)
    IN  ReadOk([i \in 1..Len(props) |-> props[i][1]], SubSeq(f.rows, 1, items))

ParsePlyNoFormatCheck(f) ==
    LET e  == FirstEndHeader(f.lines)
        st == ScanHeader(SubSeq(f.lines, 1, e))
    IN  IF e = 0 THEN ReadErr("UnexpectedEOF")
        ELSE IF ~st.hasCount THEN ReadErr("NoVertexElement")
        ELSE IF \E i \in 1..Len(st.props) : st.props[i][2] \notin TypeTokens
        THEN ReadErr("UnsupportedType")
        ELSE FromFile(f, st.props, st.count)
ParsePly(f) ==
    LET e      == FirstEndHeader(f.lines)
        header == SubSeq(f.lines, 1, e)
        st     == ScanHeader(header)
    IN  IF e = 0 THEN ReadErr("UnexpectedEOF")
        ELSE IF FormatBLE \notin Range(header) THEN ReadErr("UnsupportedFormat")
        ELSE IF ~st.hasCount THEN ReadErr("NoVertexElement")
        ELSE IF \E i \in 1..Len(st.props) : st.props[i][2] \notin TypeTokens
        THEN ReadErr("UnsupportedType")
        ELSE FromFile(f, st.props, st.count)

\* PlyData.read(ply_path)["vertex"].data: the plyfile library, which decodes
\* ascii, little-endian and big-endian files and rejects short payloads
PlyDataRead(f) ==
    LET e      == FirstEndHeader(f.lines)
        header == SubSeq(f.lines, 1, e)
        st     == ScanHeader(header)
    IN  IF e = 0 THEN ReadErr("PlyHeaderParseError")
        ELSE IF {FormatBLE, FormatASCII, FormatBBE} \cap Range(header) = {}
        THEN ReadErr("PlyHeaderParseError")
        ELSE IF ~st.hasCount THEN ReadErr("NoVertexElement")
        ELSE IF \E i \in 1..Len(st.props) : st.props[i][2] \notin TypeTokens
        THEN ReadErr("PlyHeaderParseError")
        ELSE IF Len(f.rows) < st.count THEN ReadErr("PlyElementParseError")
        ELSE ReadOk([i \in 1..Len(st.props) |-> st.props[i][1]],
                    SubSeq(f.rows, 1, st.count))

\* pack_deltas.read_vertices
PackReadVertices(f) == ParsePly(f)
\* convert_ply_to_splat.read_vertices
ConvReadVertices(f, havePlyfile) ==
    IF havePlyfile THEN PlyDataRead(f) ELSE ParsePly(f)

(***************************************************************************)
(* Numeric decoding.  exp and the sigmoid are given on the raw values the   *)
(* sample vertices use (inputs in milli, float32 results in micro).         *)
(***************************************************************************)
\* np.exp(scale)
Exp(raw) ==
    CASE raw = 0 -> Micro
      [] raw = 1000 -> 2718282
      [] raw = -1000 -> 367879
\* sigmoid(x) = 1.0 / (1.0 + np.exp(-x)) in float32: exp(100) overflows to inf
sigmoid(raw) ==
    CASE raw = 0 -> 500000
      [] raw = 100000 -> Micro
      [] raw = -100000 -> 0
\* np.clip(SH_C0 * fdc + 0.5, 0.0, 1.0)
Color(fdc) == Clip((SH_C0 * fdc) \div 1000 + 500000, 0, Micro)

(***************************************************************************)
(* load_frame (pack_deltas.py).                                             *)
(***************************************************************************)
FrameErr(e, names) ==
    [err |-> e, missing |-> names, pos |-> << >>, rgba |-> << >>, scale |-> << >>,
     hasRest |-> FALSE, frest |-> << >>]

Has(v, fields) ==
    LET present == Range(v.names) IN \A k \in 1..Len(fields) : fields[k] \in present

\* all(name in v.dtype.names for name in f_rest_fields)
FRestPresent(v) == Has(v, FRestFields)

\* required fields that are absent, in the order of the required list
MissingOf(required, v) ==
    LET present == Range(v.names) IN SelectSeq(required, LAMBDA k : k \notin present)

LoadFrame(f) ==
    LET v == PackReadVertices(f)
        n == Len(v.data)
    IN  IF v.err # "" THEN FrameErr(v.err, << >>)
        ELSE IF MissingOf(PackRequired, v) # << >>
        THEN FrameErr("MissingFields", MissingOf(PackRequired, v))
        ELSE IF ~Has(v, FdcFields) \/ ~Has(v, <<"opacity">>)
        THEN FrameErr("MissingColorOpacity", << >>)
        ELSE IF ~Has(v, ScaleFields) THEN FrameErr("MissingScale", << >>)
        ELSE [err     |-> "",
              missing |-> << >>,
              pos     |-> [p \in 1..n |-> <<v.data[p]["x"], v.data[p]["y"], v.data[p]["z"]>>],
              rgba    |-> [p \in 1..n |->
                             <<Color(v.data[p]["f_dc_0"]), Color(v.data[p]["f_dc_1"]),
                               Color(v.data[p]["f_dc_2"]), sigmoid(v.data[p]["opacity"])>>],
              scale   |-> [p \in 1..n |->
                             <<Exp(v.data[p]["scale_0"]), Exp(v.data[p]["scale_1"]),
                               Exp(v.data[p]["scale_2"])>>],
              hasRest |-> FRestPresent(v),
              frest   |-> IF FRestPresent(v)
                          THEN [p \in 1..n |->
                                  [k \in 1..Len(FRestFields) |-> v.data[p][FRestFields[k]]]]
                          ELSE << >>]

(***************************************************************************)
(* File names, Path.suffix and sorted().                                    *)
(***************************************************************************)
\* the directory listing, in the order iterdir() yields it:
\* f10.ply, n.txt, f1.ply, F2.PLY, f3.ply, e.ply
NamePool ==
    << <<102, 49, 48, 46, 112, 108, 121>>,
       <<110, 46, 116, 120, 116>>,
       <<102, 49, 46, 112, 108, 121>>,
       <<70, 50, 46, 80, 76, 89>>,
       <<102, 51, 46, 112, 108, 121>>,
       <<101, 46, 112, 108, 121>> >>
\* ".ply"
PlySuffix == <<46, 112, 108, 121>>

\* index of the last '.' (code 46), 0 when there is none
LastDot(name) ==
    IF \E k \in 1..Len(name) : name[k] = 46
    THEN CHOOSE k \in 1..Len(name) :
            name[k] = 46 /\ \A m \in (k + 1)..Len(name) : name[m] # 46
    ELSE 0
\* Path.suffix
Suffix(name) ==
    LET d == LastDot(name)
    IN  IF d > 1 /\ d < Len(name) THEN SubSeq(name, d, Len(name)) ELSE << >>
\* Path.stem
Stem(name) ==
    LET d == LastDot(name)
    IN  IF d > 1 /\ d < Len(name) THEN SubSeq(name, 1, d - 1) ELSE name
\* str.lower() on ASCII codes
Lower(str) == [k \in 1..Len(str) |-> IF str[k] \in 65..90 THEN str[k] + 32 ELSE str[k]]
\* p.suffix.lower() == ".ply"
IsPly(name) == Lower(Suffix(name)) = PlySuffix

\* a < b for strings (by code point, a proper prefix first)
RECURSIVE LexLess(_, _)
LexLess(a, b) ==
    IF b = << >> THEN FALSE
    ELSE IF a = << >> THEN TRUE
    ELSE IF a[1] # b[1] THEN a[1] < b[1]
    ELSE LexLess(Tail(a), Tail(b))

\* sorted(): insertion of e into the sorted sequence s
RECURSIVE Insert(_, _)
Insert(e, s) ==
    IF s = << >> THEN <<e>>
    ELSE IF LexLess(e.name, s[1].name) THEN <<e>> \o s
    ELSE <<s[1]>> \o Insert(e, Tail(s))
RECURSIVE SortByName(_)
SortByName(s) == IF s = << >> THEN << >> ELSE Insert(s[1], SortByName(Tail(s)))

\* files = sorted(p for p in input_dir.iterdir() if p.suffix.lower() == ".ply")
PlyFiles(dir) == SortByName(SelectSeq(dir, LAMBDA e : IsPly(e.name)))

(***************************************************************************)
(* convert_one (convert_ply_to_splat.py).                                   *)
(***************************************************************************)
\* floor of the square root, by bisection on lo..hi
RECURSIVE ISqrtIn(_, _, _)
ISqrtIn(s, lo, hi) ==
    IF lo >= hi THEN lo
    ELSE LET mid == (lo + hi + 1) \div 2
         IN  IF mid * mid <= s THEN ISqrtIn(s, mid, hi) ELSE ISqrtIn(s, lo, mid - 1)
\* np.linalg.norm(quat, axis=1) of a raw quaternion, in milli
QuatNorm(q) == ISqrtIn(q[1] * q[1] + q[2] * q[2] + q[3] * q[3] + q[4] * q[4], 0, 8000)
\* the component a division 0 / 0 leaves (NaN), outside every value in use
NaN == 0 - Micro
\* quat / quat_norm, without the floor: 0 / 0 for the zero quaternion
QuatUnitNoFloor(q) ==
    LET n == QuatNorm(q)
    IN  [c \in 1..4 |-> IF n = 0 THEN NaN ELSE (q[c] * 1000) \div n]
\* quat / np.maximum(quat_norm, 1e-8), in milli: a norm below 1e-8 has q = 0
\* at this resolution, and 0 / 1e-8 = 0
QuatUnit(q) ==
    LET n == QuatNorm(q)
    IN  [c \in 1..4 |-> IF n = 0 THEN 0 ELSE (q[c] * 1000) \div n]
\* 1e-8, in pico (1e-12)
QuatFloor == 10000
\* the same for a quaternion given in pico, result in milli: the norm, at most
\* 8e-9, is below the floor
QuatUnitTiny(q) == [c \in 1..4 |-> (q[c] * 1000) \div Max(QuatNorm(q), QuatFloor)]
\* .astype(np.uint8) of a non-negative value: the fraction is dropped and
\* the integer is kept modulo 2^8
AsUint8(value, unit) == (value \div unit) % 256
\* the colour byte without the + 0.5
QuantColorTruncate(c) == AsUint8(c * 255, Micro)
\* (c * 255.0 + 0.5).astype(np.uint8), c in micro
QuantColor(c) == AsUint8(c * 255 + 500000, Micro)
\* np.clip(q * 128.0 + 128.0, 0, 255).astype(np.uint8), q in milli
QuantRot(q) == Clip((q * 128 + 128000) \div 1000, 0, 255)

\* the structured dtype of the output: field name and size, in order
SplatDtype ==
    << <<"x", 4>>, <<"y", 4>>, <<"z", 4>>, <<"sx", 4>>, <<"sy", 4>>, <<"sz", 4>>,
       <<"r", 1>>, <<"g", 1>>, <<"b", 1>>, <<"a", 1>>,
       <<"rw", 1>>, <<"rx", 1>>, <<"ry", 1>>, <<"rz", 1>> >>
RECURSIVE ItemSize(_, _)
ItemSize(dtype, k) == IF k > Len(dtype) THEN 0 ELSE dtype[k][2] + ItemSize(dtype, k + 1)

\* the out record of one vertex
SplatRecord(row) ==
    LET q == QuatUnit(<<row["rot_0"], row["rot_1"], row["rot_2"], row["rot_3"]>>)
    IN  [x  |-> row["x"], y |-> row["y"], z |-> row["z"],
         sx |-> Exp(row["scale_0"]), sy |-> Exp(row["scale_1"]), sz |-> Exp(row["scale_2"]),
         r  |-> QuantColor(Color(row["f_dc_0"])),
         g  |-> QuantColor(Color(row["f_dc_1"])),
         b  |-> QuantColor(Color(row["f_dc_2"])),
         a  |-> QuantColor(Clip(sigmoid(row["opacity"]), 0, Micro)),
         rw |-> QuantRot(q[1]), rx |-> QuantRot(q[2]),
         ry |-> QuantRot(q[3]), rz |-> QuantRot(q[4])]

\* missing = [k for k in required if k not in v.dtype.names]
ConvMissing(v) == MissingOf(ConvRequired, v)

\* convert_one up to line 162: the decoded records, or the error raised
ConvertOne(f, havePlyfile) ==
    LET v == ConvReadVertices(f, havePlyfile)
    IN  IF v.err # "" THEN [err |-> v.err, missing |-> << >>, out |-> << >>]
        ELSE IF ConvMissing(v) # << >>
        THEN [err |-> "MissingFields", missing |-> ConvMissing(v), out |-> << >>]
        ELSE [err |-> "", missing |-> << >>,
              out |-> [p \in 1..Len(v.data) |-> SplatRecord(v.data[p])]]

\* ".splat"
SplatSuffix == <<46, 115, 112, 108, 97, 116>>
\* os.path.dirname(str(output_dir / (ply_path.stem + ".splat"))):
\* Path(".") / name is name itself, which has no directory part
SplatDirName(outdir) == IF outdir = "." THEN "" ELSE outdir
\* the file name of the splat written for a .ply
SplatName(name) == Stem(name) \o SplatSuffix

(***************************************************************************)
(* State.                                                                   *)
(***************************************************************************)
VARIABLES
    tool,       \* which program runs: "pack" or "convert"
    inputDir,   \* --input_dir: entries [name, id] in listing order
    plyfile,    \* convert: whether the plyfile import succeeded (PlyData is not None)
    outDir,     \* --output_dir
    dirExists,  \* whether the output directory exists
    dirCreated, \* whether this run's os.makedirs created it
    pc,         \* position of main
    files,      \* files: the sorted .ply entries
    idx,        \* frames (pack) or files (convert) completed by the for loop
    nPoints,    \* n_points
    kFrames,    \* k_frames
    pos0,       \* pos0[p][c]
    hasRest,    \* f_rest is not None
    delta,      \* delta[i][p][c]
    rgba,       \* rgba[i][p][c]
    scale,      \* scale[i][p][c]
    fRest,      \* f_rest[i][p][k], << >> when f_rest is None
    packFiles,  \* pack: files written by this run, name -> flat float32 contents
    meta,       \* pack: meta.json as written, << >> before
    partial,    \* pack: the file a failed write left incomplete, "" if none
    splats,     \* convert: splat files in the output directory, name -> records
    err,        \* the error that ended the run, "" if none
    errFile,    \* the file the error message names
    errMissing, \* the list of field names the error message carries
    quantIn,    \* a value given to the quantisation of convert_one: [kind, value]
    quantMid,   \* the clipped colour (micro) or the normalised quaternion (milli)
    quantOut,   \* the uint8 result, << >> before
    incoming,   \* stream server: the messages the client sends on the connection
    received,   \* stream server: messages the async for has yielded so far
    sentLog,    \* stream server: the messages handle_client sent, in order
    hpc         \* stream server: position of handle_client

vars ==
    <<tool, inputDir, plyfile, outDir, dirExists, dirCreated, pc, files, idx, nPoints, kFrames,
      pos0, hasRest, delta, rgba, scale, fRest, packFiles, meta, partial, splats,
      err, errFile, errMissing, quantIn, quantMid, quantOut,
      incoming, received, sentLog, hpc>>

packVars == <<nPoints, kFrames, pos0, hasRest, delta, rgba, scale, fRest>>
quantVars == <<quantIn, quantMid, quantOut>>
\* what no step of the two mains changes
serverVars == <<incoming, received, sentLog, hpc>>
envVars == <<tool, inputDir, plyfile, outDir, quantVars, serverVars>>

\* sample files given to the packer and to the converter
PackCatalogue ==
    {"good", "goodB", "short", "rest", "partial", "trunc", "noend", "ascii",
     "noscale01", "nox_fdc0", "norot"}
ConvCatalogue ==
    {"good", "short", "trunc", "ascii", "noend", "noscale01", "nox_fdc0",
     "badtype", "withface", "novertex"}

\* --fps, default 12.0
Fps == 12

\* a splat file left in the output directory by an earlier run
StaleSplat == <<[x |-> 0, y |-> 0, z |-> 0, sx |-> 0, sy |-> 0, sz |-> 0,
                 r |-> 0, g |-> 0, b |-> 0, a |-> 0,
                 rw |-> 0, rx |-> 0, ry |-> 0, rz |-> 0]>>

\* directory listings of n entries, the .ply ones holding files of cat
Listings(n, cat) ==
    {[k \in 1..n |-> [name |-> NamePool[k], id |-> c[k]]] :
        c \in {d \in [1..n -> cat \cup {"none"}] :
                 \A k \in 1..n : (d[k] = "none") <=> ~IsPly(NamePool[k])}}

EmptyFn == [x \in {} |-> 0]

\* no value is being quantised
QuantIdle ==
    /\ quantIn = [kind |-> "none", value |-> 0]
    /\ quantMid = << >>
    /\ quantOut = << >>

\* no client is connected to the stream server
ServerIdle ==
    /\ incoming = << >>
    /\ received = 0
    /\ sentLog = << >>
    /\ hpc = "idle"

Init ==
    /\ tool \in {"pack", "convert"}
    /\ IF tool = "pack"
       THEN \E n \in 0..MaxEntries : inputDir \in Listings(n, PackCatalogue)
       ELSE \E n \in 0..MaxConvEntries : inputDir \in Listings(n, ConvCatalogue)
    /\ plyfile \in (IF tool = "convert" THEN BOOLEAN ELSE {FALSE})
    /\ outDir \in (IF tool = "convert" THEN {".", "out"} ELSE {"out"})
    /\ dirExists \in (IF outDir = "." THEN {TRUE} ELSE BOOLEAN)
    /\ dirCreated = FALSE
    /\ splats = IF tool = "convert" /\ dirExists /\ outDir = "out"
                THEN (SplatName(NamePool[1]) :> StaleSplat)
                ELSE EmptyFn
    /\ pc = "start"
    /\ files = << >>
    /\ idx = 0
    /\ nPoints = 0
    /\ kFrames = 0
    /\ pos0 = << >>
    /\ hasRest = FALSE
    /\ delta = << >>
    /\ rgba = << >>
    /\ scale = << >>
    /\ fRest = << >>
    /\ packFiles = EmptyFn
    /\ meta = << >>
    /\ partial = ""
    /\ err = ""
    /\ errFile = << >>
    /\ errMissing = << >>
    /\ QuantIdle
    /\ ServerIdle

\* an exception leaves main: the run ends with a nonzero status
Raise(e, file, names) ==
    /\ pc' = "failed"
    /\ err' = e
    /\ errFile' = file
    /\ errMissing' = names

\* np.zeros((k, n, c))
Zeros(k, n, c) == [i \in 1..k |-> [p \in 1..n |-> [j \in 1..c |-> 0]]]

(***************************************************************************)
(* pack_deltas.main                                                         *)
(***************************************************************************)
\* lines 123-140: list and sort the input, load the base frame, allocate
PackBegin ==
    /\ tool = "pack"
    /\ pc = "start"
    /\ LET fs == PlyFiles(inputDir)
           b  == LoadFrame(FileOf(fs[1].id))
           n  == Len(b.pos)
           k  == Len(fs)
       IN  /\ files' = fs
           /\ IF fs = << >>
              THEN /\ Raise("NoPlyFiles", << >>, << >>)
                   /\ UNCHANGED packVars
              ELSE IF b.err # ""
              THEN /\ Raise(b.err, fs[1].name, b.missing)
                   /\ UNCHANGED packVars
              ELSE /\ pos0' = b.pos
                   /\ nPoints' = n
                   /\ kFrames' = k
                   /\ delta' = Zeros(k, n, 4)
                   /\ rgba' = Zeros(k, n, 4)
                   /\ scale' = Zeros(k, n, 4)
                   /\ hasRest' = b.hasRest
                   /\ fRest' = IF b.hasRest THEN Zeros(k, n, NumFRest) ELSE << >>
                   /\ pc' = "loop"
                   /\ UNCHANGED <<err, errFile, errMissing>>
    /\ UNCHANGED <<envVars, dirExists, dirCreated, idx, packFiles, meta, partial, splats>>

\* ndarray.tofile of an n x c array: rows in order, C layout
Flat2(arr, n, c) ==
    [q \in 1..(n * c) |-> arr[((q - 1) \div c) + 1][((q - 1) % c) + 1]]
\* ndarray.tofile of a k x n x c array
Flat3(arr, k, n, c) ==
    [q \in 1..(k * n * c) |->
        arr[((q - 1) \div (n * c)) + 1][(((q - 1) \div c) % n) + 1][((q - 1) % c) + 1]]
\* size in bytes of a file of float32 values
Float32Bytes(content) == 4 * Len(content)

\* the reference position the deltas of frame i are taken from
DeltaBasePrevious(i) ==
    IF i = 0 THEN pos0 ELSE LoadFrame(FileOf(files[i].id)).pos
DeltaBase(i) == pos0

\* the file a point-count error names, when it names the base file
MismatchFileBase(i) == files[1].name
\* f"Point count mismatch in {ply_path}" (line 145)
MismatchFile(i) == files[i].name

\* the frame's f_rest is checked only when the base has f_rest (lines 149-151)
RestMissing(base, fr) == base /\ ~fr.hasRest

\* lines 142-153: one iteration of the loop over the frames; early says
\* whether base positions are written out as soon as the first frame is packed
PackFrameStep(early) ==
    /\ tool = "pack"
    /\ pc = "loop"
    /\ idx < kFrames
    /\ LET i  == idx + 1
           fr == LoadFrame(FileOf(files[i].id))
           b  == DeltaBase(idx)
       IN  IF fr.err # ""
           THEN /\ Raise(fr.err, files[i].name, fr.missing)
                /\ UNCHANGED <<delta, rgba, scale, fRest, idx, packFiles, dirExists, dirCreated>>
           ELSE IF Len(fr.pos) # nPoints
           THEN /\ Raise("PointCountMismatch", MismatchFile(i), << >>)
                /\ UNCHANGED <<delta, rgba, scale, fRest, idx, packFiles, dirExists, dirCreated>>
           ELSE /\ delta' = [delta EXCEPT ![i] =
                                [p \in 1..nPoints |->
                                    <<fr.pos[p][1] - b[p][1], fr.pos[p][2] - b[p][2],
                                      fr.pos[p][3] - b[p][3], @[p][4]>>]]
                /\ rgba' = [rgba EXCEPT ![i] = fr.rgba]
                /\ scale' = [scale EXCEPT ![i] =
                                [p \in 1..nPoints |->
                                    <<fr.scale[p][1], fr.scale[p][2], fr.scale[p][3],
                                      @[p][4]>>]]
                /\ IF RestMissing(hasRest, fr)
                   THEN /\ Raise("MissingFRest", files[i].name, << >>)
                        /\ UNCHANGED <<fRest, idx, packFiles, dirExists, dirCreated>>
                   ELSE /\ fRest' = IF hasRest THEN [fRest EXCEPT ![i] = fr.frest]
                                    ELSE fRest
                        /\ idx' = i
                        /\ IF early /\ idx = 0
                           THEN /\ dirExists' = TRUE
                                /\ dirCreated' = ~dirExists
                                /\ packFiles' = ("pos0.bin" :> Flat2(pos0, nPoints, 3))
                           ELSE UNCHANGED <<packFiles, dirExists, dirCreated>>
                        /\ UNCHANGED <<pc, err, errFile, errMissing>>
    /\ UNCHANGED <<envVars, files, nPoints, kFrames, pos0, hasRest, meta, partial, splats>>

PackFrameEager == PackFrameStep(TRUE)
PackFrame == PackFrameStep(FALSE)

\* line 155: os.makedirs(output_dir, exist_ok=True), once the loop is over
PackMkdir ==
    /\ tool = "pack"
    /\ pc = "loop"
    /\ idx = kFrames
    /\ dirExists' = TRUE
    /\ dirCreated' = ~dirExists
    /\ pc' = "pos0"
    /\ UNCHANGED <<envVars, files, idx, packVars, packFiles, meta, partial, splats,
                   err, errFile, errMissing>>

\* one tofile call: the file is created or replaced
WriteStep(at, name, content, next) ==
    /\ tool = "pack"
    /\ pc = at
    /\ packFiles' = [n \in DOMAIN packFiles \cup {name} |->
                        IF n = name THEN content ELSE packFiles[n]]
    /\ pc' = next
    /\ UNCHANGED <<envVars, dirExists, dirCreated, files, idx, packVars, meta, partial, splats,
                   err, errFile, errMissing>>

\* line 163
WritePos0 == WriteStep("pos0", "pos0.bin", Flat2(pos0, nPoints, 3), "delta")
\* line 164
WriteDelta == WriteStep("delta", "delta.bin", Flat3(delta, kFrames, nPoints, 4), "rgba")
\* line 165
WriteRgba == WriteStep("rgba", "rgba.bin", Flat3(rgba, kFrames, nPoints, 4), "scale")
\* whether frest.bin is written and named in the manifest
FRestWritten == hasRest
\* scale.bin followed at once by the manifest
WriteScaleThenMeta ==
    WriteStep("scale", "scale.bin", Flat3(scale, kFrames, nPoints, 4), "meta")
\* line 166, and the test of line 167
WriteScale ==
    WriteStep("scale", "scale.bin", Flat3(scale, kFrames, nPoints, 4),
              IF FRestWritten THEN "frest" ELSE "meta")
\* line 168
WriteFRest ==
    WriteStep("frest", "frest.bin", Flat3(fRest, kFrames, nPoints, NumFRest), "meta")

\* the manifest with width and height exchanged
ManifestTransposed ==
    [width |-> kFrames, height |-> nPoints, points |-> nPoints, frames |-> kFrames,
     fps |-> Fps, rgba |-> "rgba.bin", scale |-> "scale.bin",
     frest |-> IF hasRest THEN <<"frest.bin">> ELSE << >>]
\* lines 170-179: meta; frest is <<name>>, or << >> for None
Manifest ==
    [width |-> nPoints, height |-> kFrames, points |-> nPoints, frames |-> kFrames,
     fps |-> Fps, rgba |-> "rgba.bin", scale |-> "scale.bin",
     frest |-> IF hasRest THEN <<"frest.bin">> ELSE << >>]

\* line 180: meta_path.write_text(json.dumps(meta)), then main returns
WriteMeta ==
    /\ tool = "pack"
    /\ pc = "meta"
    /\ meta' = <<Manifest>>
    /\ pc' = "done"
    /\ UNCHANGED <<envVars, dirExists, dirCreated, files, idx, packVars, packFiles, partial, splats,
                   err, errFile, errMissing>>

\* the file the step at pc writes
StepFile(at) ==
    CASE at = "pos0" -> "pos0.bin"
      [] at = "delta" -> "delta.bin"
      [] at = "rgba" -> "rgba.bin"
      [] at = "scale" -> "scale.bin"
      [] at = "frest" -> "frest.bin"
      [] at = "meta" -> "meta.json"
WritePcs == {"pos0", "delta", "rgba", "scale", "frest", "meta"}

\* a write of lines 163-180 raises OSError (disk full, permissions): the
\* file it was writing is left incomplete and nothing after it is written
WriteFails ==
    /\ tool = "pack"
    /\ pc \in WritePcs
    /\ partial' = StepFile(pc)
    /\ Raise("IOError", << >>, << >>)
    /\ UNCHANGED <<envVars, dirExists, dirCreated, files, idx, packVars, packFiles, meta, splats>>

(***************************************************************************)
(* convert_ply_to_splat.main                                                *)
(***************************************************************************)
\* lines 182-186: list and sort the input
ConvBegin ==
    /\ tool = "convert"
    /\ pc = "start"
    /\ files' = PlyFiles(inputDir)
    /\ IF files' = << >>
       THEN Raise("NoPlyFiles", << >>, << >>)
       ELSE /\ pc' = "loop"
            /\ UNCHANGED <<err, errFile, errMissing>>
    /\ UNCHANGED <<envVars, dirExists, dirCreated, idx, packVars, packFiles, meta, partial, splats>>

\* an exception of convert_one: it leaves main (the loop has no try), or,
\* with skip, the loop goes on to the next file
ConvRaise(skip, e, file, names) ==
    IF skip
    THEN /\ err' = e
         /\ errFile' = file
         /\ errMissing' = names
         /\ idx' = idx + 1
         /\ UNCHANGED pc
    ELSE /\ Raise(e, file, names)
         /\ UNCHANGED idx

\* lines 188-191: one iteration, convert_one(ply_path, splat_path) whole
ConvOneStep(skip) ==
    /\ tool = "convert"
    /\ pc = "loop"
    /\ idx < Len(files)
    /\ LET e == files[idx + 1]
           r == ConvertOne(FileOf(e.id), plyfile)
       IN  IF r.err # ""
           THEN /\ ConvRaise(skip, r.err, e.name, r.missing)
                /\ UNCHANGED <<dirExists, dirCreated, splats>>
           ELSE IF SplatDirName(outDir) = ""
           \* os.makedirs("") raises FileNotFoundError
           THEN /\ ConvRaise(skip, "FileNotFoundError", << >>, << >>)
                /\ UNCHANGED <<dirExists, dirCreated, splats>>
           ELSE /\ dirExists' = TRUE
                /\ dirCreated' = (dirCreated \/ ~dirExists)
                /\ splats' = [n \in DOMAIN splats \cup {SplatName(e.name)} |->
                                 IF n = SplatName(e.name) THEN r.out ELSE splats[n]]
                /\ idx' = idx + 1
                /\ UNCHANGED <<pc, err, errFile, errMissing>>
    /\ UNCHANGED <<envVars, files, packVars, packFiles, meta, partial>>

\* the loop with a continue-on-error handler around convert_one
ConvOneContinue == ConvOneStep(TRUE)
ConvOne == ConvOneStep(FALSE)

\* the loop is over: main returns
ConvEnd ==
    /\ tool = "convert"
    /\ pc = "loop"
    /\ idx = Len(files)
    /\ pc' = "done"
    /\ UNCHANGED <<envVars, dirExists, dirCreated, files, idx, packVars, packFiles, meta, partial,
                   splats, err, errFile, errMissing>>

Next ==
    \/ PackBegin
    \/ PackFrame
    \/ PackMkdir
    \/ WritePos0
    \/ WriteDelta
    \/ WriteRgba
    \/ WriteScale
    \/ WriteFRest
    \/ WriteMeta
    \/ WriteFails
    \/ ConvBegin
    \/ ConvOne
    \/ ConvEnd

Spec == Init /\ [][Next]_vars

(***************************************************************************)
(* The quantisation of convert_one (lines 114-127) on its own: colour,      *)
(* opacity and rotation values beyond those of the sample vertices.         *)
(***************************************************************************)
\* f_dc values, in milli, are the multiples of 50 up to this many steps
MaxColorStep == 50
\* quaternion components, in milli or in pico
QuatComponents == {-1000, -600, 0, 1, 800, 1000}

\* neither main runs
MainIdle ==
    /\ inputDir = << >>
    /\ plyfile = FALSE
    /\ outDir = "out"
    /\ dirExists = FALSE
    /\ dirCreated = FALSE
    /\ splats = EmptyFn
    /\ pc = "start"
    /\ files = << >>
    /\ idx = 0
    /\ nPoints = 0
    /\ kFrames = 0
    /\ pos0 = << >>
    /\ hasRest = FALSE
    /\ delta = << >>
    /\ rgba = << >>
    /\ scale = << >>
    /\ fRest = << >>
    /\ packFiles = EmptyFn
    /\ meta = << >>
    /\ partial = ""
    /\ err = ""
    /\ errFile = << >>
    /\ errMissing = << >>
mainVars ==
    <<tool, inputDir, plyfile, outDir, dirExists, dirCreated, pc, files, idx, nPoints, kFrames,
      pos0, hasRest, delta, rgba, scale, fRest, packFiles, meta, partial, splats,
      err, errFile, errMissing>>

\* the values given: an f_dc value (milli), a sigmoid result (micro, with
\* those next to the first and last rounding boundary), a quaternion
QuantInit ==
    /\ tool = "quantize"
    /\ MainIdle
    /\ ServerIdle
    /\ \/ \E k \in (0 - MaxColorStep)..MaxColorStep :
             quantIn = [kind |-> "rgb", value |-> 50 * k]
       \/ \E a \in {12500 * k : k \in 0..80} \cup {1960, 1961, 998039, 998040} :
             quantIn = [kind |-> "alpha", value |-> a]
       \/ \E q \in [1..4 -> QuatComponents], u \in {"milli", "pico"} :
             quantIn = [kind |-> u, value |-> q]
    /\ quantMid = << >>
    /\ quantOut = << >>

\* lines 120-122: rgb = np.clip(SH_C0 * fdc + 0.5, 0.0, 1.0), rgb_u8
QuantizeRgb ==
    /\ tool = "quantize"
    /\ quantIn.kind = "rgb"
    /\ quantOut = << >>
    /\ quantMid' = <<Color(quantIn.value)>>
    /\ quantOut' = <<QuantColor(Color(quantIn.value))>>
    /\ UNCHANGED <<mainVars, serverVars, quantIn>>

\* line 125: alpha_u8, of alpha = sigmoid(opacity)
QuantizeAlpha ==
    /\ tool = "quantize"
    /\ quantIn.kind = "alpha"
    /\ quantOut = << >>
    /\ quantMid' = <<Clip(quantIn.value, 0, Micro)>>
    /\ quantOut' = <<QuantColor(Clip(quantIn.value, 0, Micro))>>
    /\ UNCHANGED <<mainVars, serverVars, quantIn>>

\* the bytes .astype(np.uint8) can give: the conversion of NaN is undefined
RotBytes(unit) ==
    LET B(c) == IF unit[c] = NaN THEN {0, 128, 255} ELSE {QuantRot(unit[c])}
    IN  {<<w, x, y, z>> : w \in B(1), x \in B(2), y \in B(3), z \in B(4)}

\* lines 114-118 and 127: quat, quat_norm, the division, rot_u8
QuantizeRot ==
    /\ tool = "quantize"
    /\ quantIn.kind \in {"milli", "pico"}
    /\ quantOut = << >>
    /\ LET unit == IF quantIn.kind = "milli" THEN QuatUnit(quantIn.value)
                                               ELSE QuatUnitTiny(quantIn.value)
       IN  /\ quantMid' = unit
           /\ quantOut' \in RotBytes(unit)
    /\ UNCHANGED <<mainVars, serverVars, quantIn>>

QuantNext ==
    \/ QuantizeRgb
    \/ QuantizeAlpha
    \/ QuantizeRot

QuantSpec == QuantInit /\ [][QuantNext]_vars

(***************************************************************************)
(* The stream server's connection handler, handle_client of                 *)
(* render/cuda_ws_server.py, on one connection.                             *)
(***************************************************************************)
\* the longest sequence of messages a client sends
MaxMessages == 3

\* messages a client sends: a binary one and text ones
ClientMessages ==
    {[form |-> "bytes", body |-> "JFIF"],
     [form |-> "text", body |-> "camera"],
     [form |-> "text", body |-> "[]"],
     [form |-> "text", body |-> "{}"],
     [form |-> "text", body |-> "{\"type\": \"ping\"}"],
     [form |-> "text", body |-> "{\"type\": \"camera\"}"],
     [form |-> "text", body |-> "{\"type\": \"camera\", \"width\": \"wide\"}"]}

\* json.loads of the text messages: a dict with its keys, a list, or
\* json.JSONDecodeError
JsonLoads(body) ==
    CASE body = "[]" -> [kind |-> "list"]
      [] body = "{}" -> [kind |-> "dict", keys |-> EmptyFn]
      [] body = "{\"type\": \"ping\"}" ->
            [kind |-> "dict", keys |-> ("type" :> "ping")]
      [] body = "{\"type\": \"camera\"}" ->
            [kind |-> "dict", keys |-> ("type" :> "camera")]
      [] body = "{\"type\": \"camera\", \"width\": \"wide\"}" ->
            [kind |-> "dict", keys |-> ("type" :> "camera" @@ "width" :> "wide")]
      [] OTHER -> [kind |-> "JSONDecodeError"]

\* payload.get(key): None when the key is absent, AttributeError when the
\* payload is not a dict
PayloadGet(payload, key) ==
    IF payload.kind # "dict" THEN "AttributeError"
    ELSE IF key \in DOMAIN payload.keys THEN payload.keys[key]
    ELSE "None"

\* server.render(payload): int() of a width that is no number raises
\* ValueError; the renderer returns the encoded frame or raises
RenderOutcomes(payload) ==
    IF PayloadGet(payload, "width") \notin {"None"}
    THEN {"ValueError"}
    ELSE {"frame", "RuntimeError"}

\* json.dumps of the hello and of the error object, and a frame
HelloMessage == [form |-> "text", type |-> "hello", re |-> 0]
ErrorMessage(i) == [form |-> "text", type |-> "error", re |-> i]
FrameMessage(i) == [form |-> "bytes", type |-> "frame", re |-> i]

ServerInit ==
    /\ tool = "serve"
    /\ MainIdle
    /\ QuantIdle
    /\ \E n \in 0..MaxMessages : incoming \in [1..n -> ClientMessages]
    /\ received = 0
    /\ sentLog = << >>
    /\ hpc = "connected"

\* the message the loop body handles
Message == incoming[received]

\* lines 143-151: await websocket.send(json.dumps(hello))
SendHello ==
    /\ tool = "serve"
    /\ hpc = "connected"
    /\ sentLog' = Append(sentLog, HelloMessage)
    /\ hpc' = "loop"
    /\ UNCHANGED <<mainVars, quantVars, incoming, received>>

\* what lines 154-161 decide for a message: "skip" for the three continue
\* statements, "raise" for the AttributeError of payload.get, else "render"
Dispatch(message) ==
    IF message.form = "bytes" THEN "skip"
    ELSE LET payload == JsonLoads(message.body)
         IN  IF payload.kind = "JSONDecodeError" THEN "skip"
             ELSE IF PayloadGet(payload, "type") = "AttributeError" THEN "raise"
             ELSE IF PayloadGet(payload, "type") # "camera" THEN "skip"
             ELSE "render"

\* lines 153-161: the async for yields the next message
Receive ==
    /\ tool = "serve"
    /\ hpc = "loop"
    /\ received < Len(incoming)
    /\ received' = received + 1
    /\ LET d == Dispatch(incoming[received + 1])
       IN  hpc' = CASE d = "skip" -> "loop"
                    [] d = "raise" -> "raised"
                    [] OTHER -> "render"
    /\ UNCHANGED <<mainVars, quantVars, incoming, sentLog>>

\* lines 163-171: render and send the frame, or send the error object
Reply ==
    /\ tool = "serve"
    /\ hpc = "render"
    /\ \E outcome \in RenderOutcomes(JsonLoads(Message.body)) :
          sentLog' = Append(sentLog, IF outcome = "frame"
                                     THEN FrameMessage(received)
                                     ELSE ErrorMessage(received))
    /\ hpc' = "loop"
    /\ UNCHANGED <<mainVars, quantVars, incoming, received>>

\* line 153: the client closed the connection, the async for ends
LoopEnd ==
    /\ tool = "serve"
    /\ hpc = "loop"
    /\ received = Len(incoming)
    /\ hpc' = "returned"
    /\ UNCHANGED <<mainVars, quantVars, incoming, received, sentLog>>

ServerNext ==
    \/ SendHello
    \/ Receive
    \/ Reply
    \/ LoopEnd

ServerSpec == ServerInit /\ [][ServerNext]_vars

(***************************************************************************)
(* What the claims speak of.                                                *)
(***************************************************************************)
MinOf(S) == CHOOSE m \in S : \A n \in S : m <= n

\* the header ends with an end_header line
HeaderTerminated(f) == \E i \in 1..Len(f.lines) : f.lines[i].kw = "end_header"
\* the header declares format binary_little_endian 1.0
DeclaresBLE(f) ==
    \E i \in 1..Len(f.lines) :
        /\ f.lines[i].kw = "format"
        /\ f.lines[i].a = "binary_little_endian"
        /\ f.lines[i].b = "1.0"
\* the header is one the documented parser accepts
HeaderValid(f) ==
    /\ HeaderTerminated(f)
    /\ DeclaresBLE(f)
    /\ ScanHeader(f.lines).hasCount
    /\ \A q \in 1..Len(ScanHeader(f.lines).props) :
          ScanHeader(f.lines).props[q][2] \in TypeTokens
\* the fields of the vertex element
FieldsOf(f) == {ScanHeader(f.lines).props[q][1] : q \in 1..Len(ScanHeader(f.lines).props)}
\* fewer payload bytes than vertex_count records
Truncated(f) ==
    /\ HeaderValid(f)
    /\ PayloadBytes(f, SumSizes(ScanHeader(f.lines).props))
         < ScanHeader(f.lines).count * SumSizes(ScanHeader(f.lines).props)

\* the facts above and the results of the readers, for each sample file
AllIds == PackCatalogue \cup ConvCatalogue
FileFacts ==
    [id \in AllIds |->
        [terminated |-> HeaderTerminated(FileOf(id)),
         ble        |-> DeclaresBLE(FileOf(id)),
         valid      |-> HeaderValid(FileOf(id)),
         truncated  |-> Truncated(FileOf(id)),
         fields     |-> IF HeaderTerminated(FileOf(id)) THEN FieldsOf(FileOf(id)) ELSE {},
         count      |-> ScanHeader(FileOf(id).lines).count,
         rows       |-> FileOf(id).rows,
         frame      |-> LoadFrame(FileOf(id)),
         packRead   |-> PackReadVertices(FileOf(id)).err,
         convRead   |-> [b \in BOOLEAN |-> ConvReadVertices(FileOf(id), b).err]]]
\* those of the i-th file of the sorted list
At(i) == FileFacts[files[i].id]

ValidationErrors ==
    {"UnexpectedEOF", "UnsupportedFormat", "NoVertexElement", "UnsupportedType",
     "MissingFields", "MissingColorOpacity", "MissingScale", "PointCountMismatch",
     "MissingFRest"}
\* the packer has written nothing and created nothing
NothingWritten ==
    /\ DOMAIN packFiles = {}
    /\ meta = << >>
    /\ partial = ""
    /\ ~dirCreated

\* frame i fails to load or to validate against the base
FrameFails(i) ==
    \/ At(i).frame.err # ""
    \/ Len(At(i).frame.pos) # Len(At(1).frame.pos)
    \/ At(1).frame.hasRest /\ ~At(i).frame.hasRest
FailingFrames == {i \in 1..Len(files) : FrameFails(i)}

\* C1: in the delta packer every frame is loaded and validated before the
\* first write.  When some frame fails, the run never gets past the first
\* failing frame, it ends there with that frame's error, and no file has been
\* written nor the output directory created; when anything has been written
\* or created, all frames had been loaded.
C1_AllOrNothing ==
    (tool = "pack" /\ pc # "start" /\ files # << >>) =>
        IF FailingFrames # {}
        THEN /\ NothingWritten
             /\ idx < MinOf(FailingFrames)
             /\ pc \in {"loop", "failed"}
             /\ pc = "failed" =>
                   /\ err \in ValidationErrors
                   /\ errFile = files[MinOf(FailingFrames)].name
                   /\ idx = MinOf(FailingFrames) - 1
        ELSE ~NothingWritten => idx = Len(files)

\* a run that failed on its third frame, after packing two, with nothing written
C1_Witness ==
    /\ tool = "pack"
    /\ pc = "failed"
    /\ err \in ValidationErrors
    /\ idx = 2
    /\ NothingWritten

Loadable(i) == At(i).frame.err = ""
PointCount(i) == Len(At(i).frame.pos)
\* the frames after the first whose point count differs from the base's
Mismatching == {i \in 2..Len(files) : Loadable(i) /\ PointCount(i) # PointCount(1)}

\* C2 as stated, for sequences of frames that each load: a frame after the
\* first with another point count makes the run end with a point-count
\* error naming the first such file, nothing written; without such a frame
\* no point-count error.
C2_Original ==
    (/\ tool = "pack"
     /\ pc \in {"failed", "done"}
     /\ files # << >>
     /\ \A i \in 1..Len(files) : Loadable(i)) =>
        IF Mismatching # {}
        THEN /\ err = "PointCountMismatch"
             /\ errFile = files[MinOf(Mismatching)].name
             /\ DOMAIN packFiles = {} /\ meta = << >>
        ELSE err # "PointCountMismatch"

\* every frame before frame i passes load_frame and the f_rest check
EarlierFramesPass(i) ==
    \A j \in 2..(i - 1) :
        /\ Loadable(j)
        /\ At(1).frame.hasRest => At(j).frame.hasRest

\* C2 (amended): when the first frame whose point count differs from the
\* base's is reached, that is when every frame before it loads and passes
\* validation, the run stops at it with a point-count error naming that
\* file and nothing is written; a point-count error always names the first
\* such file, and there is none when all frames have the base's count.
C2_PointCountMismatch ==
    (tool = "pack" /\ pc # "start" /\ files # << >> /\ Loadable(1)) =>
        /\ (Mismatching # {} /\ EarlierFramesPass(MinOf(Mismatching))) =>
              /\ idx < MinOf(Mismatching)
              /\ pc \in {"loop", "failed"}
              /\ NothingWritten
              /\ pc = "failed" =>
                    /\ err = "PointCountMismatch"
                    /\ errFile = files[MinOf(Mismatching)].name
                    /\ idx = MinOf(Mismatching) - 1
        /\ err = "PointCountMismatch" =>
              /\ Mismatching # {}
              /\ errFile = files[MinOf(Mismatching)].name
              /\ NothingWritten

\* the third file (frame index 2) has another point count and is named
C2_Witness ==
    /\ tool = "pack"
    /\ pc = "failed"
    /\ err = "PointCountMismatch"
    /\ idx = 2
    /\ errFile = files[3].name

\* C3 as stated: a file whose payload is shorter than vertex_count records
\* is never read successfully, so no file consumed by either tool is one.
C3_TruncatedRejected ==
    \A i \in 1..Len(files) : i <= idx => ~At(i).truncated

\* read_vertices of the running tool succeeds on file i
ReadsOk(i) ==
    IF tool = "pack" THEN At(i).packRead = "" ELSE At(i).convRead[plyfile] = ""
\* the fields the claim says each tool needs
NeededFields ==
    IF tool = "pack"
    THEN Range(PackRequired) \cup Range(FdcFields) \cup {"opacity"} \cup Range(ScaleFields)
    ELSE Range(ConvRequired)
Lacking(i, needed) == {n \in needed : n \notin At(i).fields}
\* the run ended on file i
FailedAt(i) == pc = "failed" /\ idx = i - 1
\* nothing was written for file i
NothingWrittenFor(i) ==
    IF tool = "pack" THEN NothingWritten
    ELSE SplatName(files[i].name) \in DOMAIN splats =>
            splats[SplatName(files[i].name)] = StaleSplat

\* C4 as stated: a file lacking a non-empty set M of the fields its tool
\* needs ends the run with a missing-field error whose list is exactly M,
\* and nothing is written for it.
C4_MissingFieldsListed ==
    pc # "start" =>
        \A i \in 1..Len(files) :
            (ReadsOk(i) /\ Lacking(i, NeededFields) # {}) =>
                /\ idx < i
                /\ FailedAt(i) =>
                      /\ err = "MissingFields"
                      /\ Range(errMissing) = Lacking(i, NeededFields)
                      /\ Len(errMissing) = Cardinality(Lacking(i, NeededFields))
                      /\ NothingWrittenFor(i)

\* file i has some but not all of the 27 f_rest fields
PartialRest(i) ==
    /\ At(i).fields \cap Range(FRestFields) # {}
    /\ ~(Range(FRestFields) \subseteq At(i).fields)

\* C5 as stated: a frame with some but not all of f_rest_0..26 is never
\* accepted by the packer.
C5_PartialRestRejected ==
    tool = "pack" =>
        \A i \in 1..Len(files) : (i <= idx /\ At(i).valid) => ~PartialRest(i)

HasAllRest(i) == Range(FRestFields) \subseteq At(i).fields

\* C6 as stated: the packer succeeds only when every frame has the same
\* f_rest availability as the base.
C6_SameRestAvailability ==
    (tool = "pack" /\ pc = "done") =>
        \A i \in 1..Len(files) : HasAllRest(i) <=> HasAllRest(1)

\* the header of file i lacks end_header or the binary_little_endian 1.0 line
BadHeader(i) == ~At(i).terminated \/ ~At(i).ble
\* file i is refused with a format error and nothing is produced from it
RefusedForFormat(i) ==
    /\ idx < i
    /\ FailedAt(i) =>
          /\ err = IF ~At(i).terminated THEN "UnexpectedEOF"
                   ELSE "UnsupportedFormat"
          /\ errFile = files[i].name
          /\ NothingWrittenFor(i)

\* C7 as stated: read_vertices of either tool refuses every file whose
\* header ends before end_header or does not declare binary_little_endian.
C7_Original ==
    pc # "start" =>
        \A i \in 1..Len(files) : BadHeader(i) => RefusedForFormat(i)

\* C7 (amended): the hand-written parser does so: read_vertices of the
\* packer, and read_vertices of the converter when plyfile is not
\* importable (with plyfile the converter reads through PlyData.read).
C7_FormatErrors ==
    (pc # "start" /\ (tool = "pack" \/ ~plyfile)) =>
        \A i \in 1..Len(files) : BadHeader(i) => RefusedForFormat(i)

\* an ASCII or big-endian file stops the converter's own parser on a later file
C7_Witness ==
    /\ tool = "convert"
    /\ ~plyfile
    /\ pc = "failed"
    /\ err = "UnsupportedFormat"
    /\ idx = 1
    /\ At(2).terminated

\* a file convert_one is specified to accept
ValidForConvert(i) ==
    /\ At(i).valid
    /\ ~At(i).truncated
    /\ Range(ConvRequired) \subseteq At(i).fields

\* C8 as stated: for every valid input convert_one writes one file of 32*N
\* bytes, whose record p holds the values decoded from vertex p.
C8_SplatWritten ==
    (tool = "convert" /\ pc # "start") =>
        \A i \in 1..Len(files) :
            ValidForConvert(i) =>
                /\ ~FailedAt(i)
                /\ i <= idx =>
                      /\ SplatName(files[i].name) \in DOMAIN splats
                      /\ LET out == splats[SplatName(files[i].name)]
                             n   == At(i).count
                         IN  /\ Len(out) = n
                             /\ Len(out) * ItemSize(SplatDtype, 1) = 32 * n
                             /\ \A p \in 1..n : out[p] = SplatRecord(At(i).rows[p])

\* a < b for file names, by the first position where they differ
NameBefore(a, b) ==
    \E k \in 1..(Min(Len(a), Len(b)) + 1) :
        /\ \A j \in 1..(k - 1) : a[j] = b[j]
        /\ \/ k > Len(a) /\ k <= Len(b)
           \/ k <= Len(a) /\ k <= Len(b) /\ a[k] < b[k]
\* raw position component c of point p of the i-th sorted file
RawPos(i, p, c) == At(i).rows[p][<<"x", "y", "z">>[c]]
RawScale(i, p, c) == At(i).rows[p][ScaleFields[c]]
RawFdc(i, p, c) == At(i).rows[p][FdcFields[c]]
\* index (from 1) of element (i, p, c) in a flat k x n x 4 buffer
FlatIndex(i, p, c, n) == ((i - 1) * n + (p - 1)) * 4 + c

\* C9: the frames are the .ply entries in lexicographic name order, the
\* first being the base; for every packed frame i and point p the delta is
\* the frame's position minus the base's with a zero 4th component, scale
\* is the frame's scale with a zero 4th component, rgba is the frame's
\* colour and opacity; the written buffers hold these at (frame, point,
\* channel).
C9_DeltaLayout ==
    (tool = "pack" /\ pc # "start" /\ files # << >>) =>
        /\ \A i, j \in 1..Len(files) : i < j => NameBefore(files[i].name, files[j].name)
        /\ Range(files) = {e \in Range(inputDir) : IsPly(e.name)}
        /\ \A i \in 1..idx : \A p \in 1..Len(At(1).rows) :
              /\ \A c \in 1..3 :
                    /\ delta[i][p][c] = RawPos(i, p, c) - RawPos(1, p, c)
                    /\ scale[i][p][c] = Exp(RawScale(i, p, c))
                    /\ rgba[i][p][c] = Color(RawFdc(i, p, c))
              /\ delta[i][p][4] = 0
              /\ scale[i][p][4] = 0
              /\ rgba[i][p][4] = sigmoid(At(i).rows[p]["opacity"])
        /\ pc = "done" =>
              \A i \in 1..Len(files) : \A p \in 1..nPoints : \A c \in 1..4 :
                  /\ packFiles["delta.bin"][FlatIndex(i, p, c, nPoints)] = delta[i][p][c]
                  /\ packFiles["rgba.bin"][FlatIndex(i, p, c, nPoints)] = rgba[i][p][c]
                  /\ packFiles["scale.bin"][FlatIndex(i, p, c, nPoints)] = scale[i][p][c]

\* three frames packed and written, a later frame away from the base
C9_Witness ==
    /\ tool = "pack"
    /\ pc = "done"
    /\ Len(files) = 3
    /\ \E p \in 1..nPoints : delta[3][p][1] # 0 /\ delta[1][p][1] = 0

\* C10: after a successful run the manifest has width = points = N and
\* height = frames = K; frest.bin is written iff the manifest's frest field
\* is a file name iff the base has all 27 f_rest fields; pos0.bin has 12N
\* bytes, delta.bin, rgba.bin and scale.bin 16KN each, frest.bin 108KN.
C10_Manifest ==
    (tool = "pack" /\ pc = "done") =>
        LET m == meta[1]
            N == Len(At(1).rows)
            K == Cardinality({k \in 1..Len(inputDir) : IsPly(inputDir[k].name)})
        IN  /\ m.width = N /\ m.points = N
            /\ m.height = K /\ m.frames = K
            /\ ("frest.bin" \in DOMAIN packFiles) <=> (m.frest # << >>)
            /\ (m.frest # << >>) <=> HasAllRest(1)
            /\ m.frest \in {<< >>, <<"frest.bin">>}
            /\ DOMAIN packFiles \ {"frest.bin"} =
                  {"pos0.bin", "delta.bin", "rgba.bin", "scale.bin"}
            /\ Float32Bytes(packFiles["pos0.bin"]) = 12 * N
            /\ Float32Bytes(packFiles["delta.bin"]) = 16 * K * N
            /\ Float32Bytes(packFiles["rgba.bin"]) = 16 * K * N
            /\ Float32Bytes(packFiles["scale.bin"]) = 16 * K * N
            /\ "frest.bin" \in DOMAIN packFiles =>
                  Float32Bytes(packFiles["frest.bin"]) = 108 * K * N

\* a finished pack of three frames with colour detail
C10_Witness ==
    /\ tool = "pack"
    /\ pc = "done"
    /\ kFrames = 3
    /\ meta[1].frest = <<"frest.bin">>
    /\ "frest.bin" \in DOMAIN packFiles

\* file i was converted by this run: its splat holds its records
Converted(i) ==
    /\ SplatName(files[i].name) \in DOMAIN splats
    /\ splats[SplatName(files[i].name)] = ConvertOne(FileOf(files[i].id), plyfile).out
    /\ splats[SplatName(files[i].name)] # StaleSplat
\* every splat in the output directory is one this run wrote for one of the
\* first n files, or is what an earlier run left there
OnlyFirstWritten(n) ==
    \A s \in DOMAIN splats :
        \/ \E i \in 1..n : s = SplatName(files[i].name)
        \/ splats[s] = StaleSplat

\* C11: convert_ply_to_splat.main takes the .ply files in sorted order, one
\* at a time.  When convert_one fails on a file the run ends there with a
\* failure: the files before it were converted, nothing was written for the
\* failing file or for any later one, and a run that ended with success had
\* no failure and converted every file.
C11_HaltOnFirstFailure ==
    (tool = "convert" /\ pc # "start") =>
        /\ \A i, j \in 1..Len(files) : i < j => NameBefore(files[i].name, files[j].name)
        /\ Range(files) = {e \in Range(inputDir) : IsPly(e.name)}
        /\ (err # "") <=> (pc = "failed")
        /\ idx <= Len(files)
        /\ \A i \in 1..idx : Converted(i)
        /\ OnlyFirstWritten(idx)
        /\ \A j \in (idx + 1)..Len(files) : NothingWrittenFor(j)
        /\ pc = "done" => (err = "" /\ idx = Len(files))

\* the first of two files failed and the second, a file convert_one accepts,
\* was left alone
C11_Witness ==
    /\ tool = "convert"
    /\ pc = "failed"
    /\ err \notin {"NoPlyFiles", "FileNotFoundError"}
    /\ Len(files) = 2
    /\ idx = 0
    /\ ConvertOne(FileOf(files[2].id), plyfile).err = ""
    /\ SplatName(files[2].name) \notin DOMAIN splats

\* b is c * 255 rounded to the nearest integer, a half going up (c in micro)
RoundsHalfUp(c, b) == 2 * Micro * b - Micro <= 510 * c /\ 510 * c < 2 * Micro * b + Micro
\* c * 255 is an integer plus one half
OnHalf(c) == (510 * c) % (2 * Micro) = Micro
\* the value before np.clip: SH_C0 * fdc + 0.5, or the sigmoid result
Unclipped == IF quantIn.kind = "rgb" THEN (SH_C0 * quantIn.value) \div 1000 + 500000
                                     ELSE quantIn.value

\* C12: a colour or opacity value is clipped to [0, 1] and then mapped to
\* the byte floor(c * 255 + 0.5): the byte lies in 0..255, it is 255 for 1.0
\* and 0 for 0.0, a value whose c * 255 is exactly on a half goes up, and a
\* value outside [0, 1] gives the byte of the nearer end instead of wrapping.
C12_ColorQuantization ==
    (quantIn.kind \in {"rgb", "alpha"} /\ quantOut # << >>) =>
        LET c == quantMid[1]
            b == quantOut[1]
        IN  /\ c = IF Unclipped < 0 THEN 0 ELSE IF Unclipped > Micro THEN Micro ELSE Unclipped
            /\ b \in 0..255
            /\ RoundsHalfUp(c, b)
            /\ c = Micro => b = 255
            /\ c = 0 => b = 0
            /\ OnHalf(c) => 2 * Micro * b = 510 * c + Micro
            /\ Unclipped > Micro => b = 255
            /\ Unclipped < 0 => b = 0

\* 0.3 * 255 = 76.5 became 77 (half-even would give 76)
C12_Witness ==
    /\ quantIn.kind = "alpha"
    /\ quantIn.value = 300000
    /\ quantOut = <<77>>

\* n is the norm of q cut to an integer
NormOf(q, n) ==
    LET sq == q[1] * q[1] + q[2] * q[2] + q[3] * q[3] + q[4] * q[4]
    IN  n * n <= sq /\ sq < (n + 1) * (n + 1)
\* u is num / den cut to the integer below
Quotient(num, den, u) == u * den <= num /\ num < (u + 1) * den
\* b is clamp(u * 128 + 128, 0, 255) cut to an integer (u in milli)
ClampedRotByte(u, b) ==
    LET v == u * 128 + 128000
    IN  IF v <= 0 THEN b = 0
        ELSE IF v >= 255000 THEN b = 255
        ELSE b * 1000 <= v /\ v < (b + 1) * 1000

\* C13: every raw quaternion, the zero quaternion and those of norm below
\* 1e-8 included, is divided by max(norm, 1e-8): the components are finite
\* (no NaN) and at most 1 in size, each rotation byte is
\* clamp(q * 128 + 128, 0, 255) cut to an integer and so within 0..255, a
\* component of 1.0 gives 255 and the zero quaternion 128 everywhere.
C13_RotationQuantization ==
    (quantIn.kind \in {"milli", "pico"} /\ quantOut # << >>) =>
        LET q == quantIn.value
        IN  /\ \A c \in 1..4 : quantMid[c] # NaN /\ quantMid[c] \in (0 - 1000)..1000
            /\ \E n \in 0..8000 :
                  /\ NormOf(q, n)
                  /\ \A c \in 1..4 :
                        IF quantIn.kind = "pico"
                        THEN n < QuatFloor /\ Quotient(q[c] * 1000, QuatFloor, quantMid[c])
                        ELSE IF n = 0 THEN quantMid[c] = 0
                        ELSE Quotient(q[c] * 1000, n, quantMid[c])
            /\ \A c \in 1..4 :
                  /\ quantOut[c] \in 0..255
                  /\ ClampedRotByte(quantMid[c], quantOut[c])
                  /\ quantMid[c] = 1000 => quantOut[c] = 255
            /\ (\A c \in 1..4 : q[c] = 0) => \A c \in 1..4 : quantOut[c] = 128

\* the zero quaternion was quantised, to 128 in every component
C13_Witness ==
    /\ quantIn.kind = "milli"
    /\ \A c \in 1..4 : quantIn.value[c] = 0
    /\ quantOut = <<128, 128, 128, 128>>

\* C14 as stated: for every valid input and every output directory the
\* command line accepts, "." included, convert_one creates the directory
\* when it is absent and writes the splat file, replacing a file an earlier
\* run left at that path.
C14_DestinationWritten ==
    (tool = "convert" /\ pc # "start") =>
        \A i \in 1..Len(files) :
            ValidForConvert(i) =>
                /\ ~FailedAt(i)
                /\ i <= idx => (dirExists /\ Converted(i))

\* the buffers in the order main writes them
BufferOrder == <<"pos0.bin", "delta.bin", "rgba.bin", "scale.bin", "frest.bin">>
\* buffer k of the order is produced by this run
Produced(k) == BufferOrder[k] # "frest.bin" \/ hasRest
\* this run wrote file name completely
Complete(name) ==
    /\ name \in DOMAIN packFiles
    /\ partial # name
    /\ Len(packFiles[name]) =
          CASE name = "pos0.bin" -> 3 * nPoints
            [] name = "frest.bin" -> NumFRest * kFrames * nPoints
            [] OTHER -> 4 * kFrames * nPoints
\* meta.json exists, whole or cut short by a failed write
MetaStarted == meta # << >> \/ partial = "meta.json"

\* C15: meta.json is written last, after pos0.bin, delta.bin, rgba.bin,
\* scale.bin and, when produced, frest.bin, in that order.  In every state,
\* those of a run ended by a failed write included: a buffer that exists
\* was written after every produced buffer before it, all of them complete;
\* if meta.json has been written, then every produced buffer, and so every
\* file the manifest names, has been written completely by this run.
C15_ManifestLast ==
    tool = "pack" =>
        /\ \A k \in 1..Len(BufferOrder) :
              (BufferOrder[k] \in DOMAIN packFiles \/ partial = BufferOrder[k]) =>
                  /\ Produced(k)
                  /\ \A j \in 1..(k - 1) : Produced(j) => Complete(BufferOrder[j])
        /\ \A n \in DOMAIN packFiles : \E k \in 1..Len(BufferOrder) : n = BufferOrder[k]
        /\ MetaStarted =>
              \A k \in 1..Len(BufferOrder) : Produced(k) => Complete(BufferOrder[k])
        /\ meta # << >> =>
              /\ Complete(meta[1].rgba)
              /\ Complete(meta[1].scale)
              /\ \A i \in 1..Len(meta[1].frest) : Complete(meta[1].frest[i])
              /\ partial = ""

\* the manifest of a run with colour detail has been written
C15_Witness ==
    /\ tool = "pack"
    /\ meta # << >>
    /\ meta[1].frest = <<"frest.bin">>
    /\ \A k \in 1..Len(BufferOrder) : Complete(BufferOrder[k])

\* the replies in sentLog to message i
RepliesTo(i) == {k \in 1..Len(sentLog) : sentLog[k].re = i}
\* message i of the connection is a text that parses as JSON with type camera
IsCamera(i) ==
    /\ incoming[i].form = "text"
    /\ JsonLoads(incoming[i].body).kind = "dict"
    /\ PayloadGet(JsonLoads(incoming[i].body), "type") = "camera"
\* handle_client is over: it returned or an exception left it
HandlerOver == hpc \in {"returned", "raised"}

(* C16: on one connection of the stream server, for every sequence of       *)
(* incoming messages, the first message sent is the JSON hello; replies      *)
(* are in request order; once handle_client is over every text message with  *)
(* JSON type camera has exactly one reply, a frame or an error object, and   *)
(* every other message has none; and only the end of the incoming sequence   *)
(* ends the receive loop.                                                    *)
C16_CameraAnswered ==
    /\ sentLog # << >> => sentLog[1] = HelloMessage
    /\ \A k \in 2..Len(sentLog) :
          /\ sentLog[k].type \in {"frame", "error"}
          /\ (sentLog[k].type = "frame") <=> (sentLog[k].form = "bytes")
          /\ k > 2 => sentLog[k - 1].re < sentLog[k].re
    /\ \A i \in 1..Len(incoming) :
          /\ ~IsCamera(i) => RepliesTo(i) = {}
          /\ Cardinality(RepliesTo(i)) <= 1
          /\ HandlerOver /\ IsCamera(i) => Cardinality(RepliesTo(i)) = 1
    /\ HandlerOver => received = Len(incoming)

====
